---- MODULE Spec2Model ----
(***************************************************************************)
(* The transaction pipeline of the blzgo client: SendTransaction,          *)
(* ProcessTransaction, ValidateTransaction, BroadcastTransaction (with its *)
(* conflict retry), SignTransaction, the HTTP helpers and                  *)
(* LeaseInfo.ToBlocks.                                                     *)
(*                                                                         *)
(* Strings whose content the code inspects are sequences: decimal and hex  *)
(* strings are sequences of one-character strings, log and error messages  *)
(* are sequences of words.                                                 *)
(***************************************************************************)
EXTENDS Integers, Sequences, FiniteSets, TLC

\* ------------------------------------------------------------------ bounds

\* Number of goroutines calling SendTransaction, each with one Transaction.
NumCallers == 2
\* Capacity of the ctx.transactions channel.
ChanCap == 2
\* The account's sequence at construction is drawn from 0..MaxInitSeq.
MaxInitSeq == 0
\* Transactions of other clients that use the same account on the ledger.
MaxExternal == 1
\* How often the fee resolution is re-run on its own output (FeeSpec).
MaxFeeRuns == 2
\* The history's counters of network calls stop counting here.
MaxCount == 12

\* --------------------------------------------------------------- constants

BROADCAST_MAX_RETRIES == 10

BLOCK_TIME_IN_SECONDS == 5

\* The marker BroadcastTransaction looks for in raw_log.
SigFailedMarker == <<"signature", "verification", "failed">>

\* ------------------------------------------------------- strconv, strings

DigitChars == <<"0", "1", "2", "3", "4", "5", "6", "7", "8", "9">>

IsDigit(c) == \E i \in 1..10 : DigitChars[i] = c

DigitVal(c) == (CHOOSE i \in 1..10 : DigitChars[i] = c) - 1

RECURSIVE ParseDigits(_, _)
\* The value of a sequence of decimal digits, most significant first.
ParseDigits(s, acc) ==
    IF s = <<>> THEN acc
    ELSE ParseDigits(Tail(s), acc * 10 + DigitVal(Head(s)))

\* strconv.Atoi: an optional sign, then one or more decimal digits; anything
\* else is a syntax error, returned with the value 0.
Atoi(s) ==
    LET signed == s # <<>> /\ Head(s) \in {"+", "-"}
        digits == IF signed THEN Tail(s) ELSE s
    IN  IF digits = <<>> \/ \E i \in 1..Len(digits) : ~IsDigit(digits[i])
        THEN [val |-> 0, ok |-> FALSE]
        ELSE [val |-> IF signed /\ Head(s) = "-"
                      THEN 0 - ParseDigits(digits, 0)
                      ELSE ParseDigits(digits, 0),
              ok |-> TRUE]

RECURSIVE FormatDigits(_)
FormatDigits(n) ==
    IF n < 10 THEN <<DigitChars[n + 1]>>
    ELSE Append(FormatDigits(n \div 10), DigitChars[(n % 10) + 1])

\* strconv.Itoa
Itoa(n) == IF n < 0 THEN <<"-">> \o FormatDigits(0 - n) ELSE FormatDigits(n)

\* strings.Contains on word sequences: sub occurs contiguously in s.
Contains(s, sub) ==
    \E i \in 0..(Len(s) - Len(sub)) :
        \A j \in 1..Len(sub) : s[i + j] = sub[j]

\* -------------------------------------------------------------- encoding/hex

HexChars == <<"0", "1", "2", "3", "4", "5", "6", "7", "8", "9",
              "a", "b", "c", "d", "e", "f">>

IsHex(c) == \E i \in 1..16 : HexChars[i] = c

HexVal(c) == (CHOOSE i \in 1..16 : HexChars[i] = c) - 1

NoErr == [nil |-> TRUE, msg |-> <<>>]

Err(msg) == [nil |-> FALSE, msg |-> msg]

ErrHexByte == Err(<<"encoding/hex:", "invalid", "byte">>)

ErrHexLength == Err(<<"encoding/hex:", "odd", "length", "hex", "string">>)

RECURSIVE HexDecode(_, _)
\* hex.Decode: pairs of hex digits to bytes, stopping at the first invalid
\* character; the bytes decoded before it are kept.
HexDecode(src, dst) ==
    IF Len(src) >= 2
    THEN IF ~IsHex(src[1]) \/ ~IsHex(src[2])
         THEN [bytes |-> dst, err |-> ErrHexByte]
         ELSE HexDecode(SubSeq(src, 3, Len(src)),
                        Append(dst, HexVal(src[1]) * 16 + HexVal(src[2])))
    ELSE IF Len(src) = 1
         THEN [bytes |-> dst,
               err |-> IF IsHex(src[1]) THEN ErrHexLength ELSE ErrHexByte]
         ELSE [bytes |-> dst, err |-> NoErr]

\* hex.DecodeString: returns src[:n], a non-nil slice, with the error.
DecodeString(s) ==
    LET d == HexDecode(s, <<>>)
    IN  [result |-> [nil |-> FALSE, bytes |-> d.bytes], err |-> d.err]

\* ------------------------------------------------------------------ values

NilResult == [nil |-> TRUE, bytes |-> <<>>]

EmptyResult == [nil |-> FALSE, bytes |-> <<>>]

NilGasInfo == [nil |-> TRUE, MaxGas |-> 0, MaxFee |-> 0, GasPrice |-> 0]

GasInfo(maxGas, maxFee, gasPrice) ==
    [nil |-> FALSE, MaxGas |-> maxGas, MaxFee |-> maxFee, GasPrice |-> gasPrice]

ErrGasInfo == Err(<<"gas_info", "is", "required">>)

ErrMaxRetries == Err(<<"txn", "failed", "after", "max", "retry", "attempts">>)

\* ---------------------------------------------------------- fee resolution

\* BroadcastTransaction, "Set fee": the gas of the new fee.
ResolveGas(fee, gasInfo) ==
    LET gas == Atoi(fee.Gas).val
    IN  IF gasInfo.MaxGas # 0 /\ gas > gasInfo.MaxGas
        THEN gasInfo.MaxGas
        ELSE gas

\* ResolveAmount with the precedence of max_fee and gas_price swapped.
ResolveAmountPriceFirst(fee, gasInfo) ==
    LET amount0 == IF Len(fee.Amount) # 0 /\ Atoi(fee.Amount[1].Amount).ok
                   THEN Atoi(fee.Amount[1].Amount).val
                   ELSE 0
    IN  IF gasInfo.GasPrice # 0
        THEN ResolveGas(fee, gasInfo) * gasInfo.GasPrice
        ELSE IF gasInfo.MaxFee # 0 THEN gasInfo.MaxFee
             ELSE amount0

\* ResolveAmount with the price of the gas put on top of the amount the
\* payload already carries.
ResolveAmountOnTop(fee, gasInfo) ==
    LET amount0 == IF Len(fee.Amount) # 0 /\ Atoi(fee.Amount[1].Amount).ok
                   THEN Atoi(fee.Amount[1].Amount).val
                   ELSE 0
    IN  IF gasInfo.MaxFee # 0 THEN gasInfo.MaxFee
        ELSE IF gasInfo.GasPrice # 0
             THEN amount0 + ResolveGas(fee, gasInfo) * gasInfo.GasPrice
             ELSE amount0

\* BroadcastTransaction, "Set fee": the amount of the new fee.
ResolveAmount(fee, gasInfo) ==
    LET amount0 == IF Len(fee.Amount) # 0 /\ Atoi(fee.Amount[1].Amount).ok
                   THEN Atoi(fee.Amount[1].Amount).val
                   ELSE 0
    IN  IF gasInfo.MaxFee # 0 THEN gasInfo.MaxFee
        ELSE IF gasInfo.GasPrice # 0
             THEN ResolveGas(fee, gasInfo) * gasInfo.GasPrice
             ELSE amount0

\* The TransactionFee that replaces txn.Fee.
ResolveFee(fee, gasInfo) ==
    [Gas |-> Itoa(ResolveGas(fee, gasInfo)),
     Amount |-> <<[Denom |-> "ubnt",
                   Amount |-> Itoa(ResolveAmount(fee, gasInfo))]>>]

\* ------------------------------------------------------------------ leases

\* Go's integer division, which truncates toward zero.
GoDiv(a, b) ==
    IF a >= 0 THEN a \div b ELSE 0 - ((0 - a) \div b)

LeaseInfo(days, hours, minutes, seconds) ==
    [Days |-> days, Hours |-> hours, Minutes |-> minutes, Seconds |-> seconds]

\* ToBlocks that counts a started block as a block.
ToBlocksRoundedUp(lease) ==
    LET s1 == lease.Days * 24 * 60 * 60
        s2 == s1 + lease.Hours * 60 * 60
        s3 == s2 + lease.Minutes * 60
        s4 == s3 + lease.Seconds
    IN  GoDiv(s4 + (BLOCK_TIME_IN_SECONDS - 1), BLOCK_TIME_IN_SECONDS)

\* LeaseInfo.ToBlocks
ToBlocks(lease) ==
    LET s1 == lease.Days * 24 * 60 * 60
        s2 == s1 + lease.Hours * 60 * 60
        s3 == s2 + lease.Minutes * 60
        s4 == s3 + lease.Seconds
    IN  GoDiv(s4, BLOCK_TIME_IN_SECONDS)

\* ------------------------------------------------------------------- state

VARIABLES
    callerPc,          \* where each caller is in SendTransaction
    ret,               \* what each SendTransaction returned: [result, err]
    txn,               \* the Transaction of each caller
    transactions,      \* ctx.transactions, the channel's buffer
    account,           \* ctx.account
    broadcastRetries,  \* ctx.broadcastRetries
    wpc,               \* where the worker is
    cur,               \* the Transaction the worker processes
    payload,           \* the TransactionBroadcastPayload of cur
    out,               \* result, err of ProcessTransaction's locals
    ledger,            \* the ledger's view of the account
    hist,              \* history of the Transaction being processed
    phase,             \* history: each Transaction's stage
    produced,          \* history: the result, err the worker computed
    delivered,         \* history: values sent on each txn.done
    streak,            \* history: [n, base] consecutive first-try successes
    feeState,          \* fee resolution run on its own (FeeSpec)
    leaseState,        \* LeaseInfo.ToBlocks run on its own (LeaseSpec)
    order              \* history: the sends in their order, each with the
                       \* number of Transactions ahead of it in the channel

vars == <<callerPc, ret, txn, transactions, account, broadcastRetries, wpc,
          cur, payload, out, ledger, hist, phase, produced, delivered, streak,
          feeState, leaseState, order>>

pipelineVars == <<callerPc, ret, txn, transactions, account, broadcastRetries,
                  wpc, cur, payload, out, ledger, hist, phase, produced,
                  delivered, streak, order>>

Callers == 1..NumCallers

\* The GasInfo values callers pass.
GasInfos == {NilGasInfo, GasInfo(30, 0, 5)}

\* makeRandomString: its 32 characters are a function of the seed, the
\* clock's reading at the call reduced by rand.Seed; nothing keeps two calls
\* from drawing the same string.
Memos == {"memoA", "memoB"}

\* ---------------------------------------------------------- HTTP responses

ErrNet == Err(<<"connection", "refused">>)

ErrJSON == Err(<<"invalid", "character">>)

ErrUnmarshal == Err(<<"json:", "cannot", "unmarshal">>)

ErrSign == Err(<<"signing", "failed">>)

ErrSetAccount == Err(<<"account", "lookup", "failed">>)

ErrAtoiGas == Err(<<"strconv.Atoi:", "invalid", "syntax">>)

NoFee == [Gas |-> <<>>, Amount |-> <<>>]

NoPayload == [Fee |-> NoFee, Memo |-> "", Signatures |-> <<>>]

\* The fee templates the validate endpoint answers with.
TemplateFees ==
    {[Gas |-> <<"5", "0">>, Amount |-> <<[Denom |-> "ubnt", Amount |-> <<"7">>]>>],
     [Gas |-> <<"a", "b", "c">>, Amount |-> <<>>]}

\* An HTTP response: the transport fails (neterr), or a body arrives under
\* some HTTP status that is JSON or not (valid), carries an "error" field
\* or not, and decodes into the expected struct or not (shape) as value.
Response(neterr, status, valid, error, shape, value) ==
    [neterr |-> neterr, status |-> status, valid |-> valid, error |-> error,
     shape |-> shape, value |-> value]

\* The answers that carry no value: no answer at all, a gateway's page, a
\* body of another shape.
NoValueResponses(none) ==
    {Response(TRUE, 0, FALSE, <<>>, FALSE, none),
     Response(FALSE, 502, FALSE, <<>>, FALSE, none),
     Response(FALSE, 200, TRUE, <<>>, FALSE, none)}

ErrorKeyNotFound == <<"key", "not", "found">>

\* The responses to a validate POST. A body that decodes carries a template
\* with a fee, as the ledger's validate endpoint answers; an error envelope
\* comes under status 200 or 500, alone or beside a template.
ValidateResponses ==
    NoValueResponses(NoPayload)
    \cup {Response(FALSE, st, TRUE, ErrorKeyNotFound, TRUE, NoPayload) : st \in {200, 500}}
    \cup {Response(FALSE, 200, TRUE, e, TRUE, [Fee |-> f, Memo |-> "", Signatures |-> <<>>]) :
            e \in {<<>>, ErrorKeyNotFound}, f \in TemplateFees}

LogOK == <<"[]">>

\* The ledger's log of a sequence mismatch, punctuation as words of its own.
LogSigFailed == <<"unauthorized", ":", "signature", "verification", "failed", ";",
                  "verify", "correct", "account", "sequence", "and", "chain-id">>

LogOutOfGas == <<"out", "of", "gas">>

LogNearMiss == <<"signature", "verification", "passed", ";", "failed">>

NoBroadcastResponse == [Code |-> 0 - 1, RawLog |-> <<>>, Data |-> <<>>]

\* The TransactionBroadcastResponse values the ledger answers with.
BroadcastValues ==
    {[Code |-> 0, RawLog |-> l, Data |-> d] :
        l \in {LogOK, LogSigFailed},
        d \in {<<>>, <<"6", "f">>, <<"6", "f", "z", "z">>}}
    \cup {[Code |-> 4, RawLog |-> l, Data |-> <<>>] :
        l \in {LogSigFailed, LogOutOfGas, LogNearMiss, <<>>}}

\* The responses to a broadcast POST; an error envelope comes under status
\* 200 or 500, alone, beside the fields of a success, or with the marker
\* as its text beside the fields of a conflict.
BroadcastResponses ==
    NoValueResponses(NoBroadcastResponse)
    \cup {Response(FALSE, st, TRUE, ErrorKeyNotFound, TRUE, NoBroadcastResponse) :
            st \in {200, 500}}
    \cup {Response(FALSE, 200, TRUE, ErrorKeyNotFound, TRUE,
                   [Code |-> 0, RawLog |-> LogOK, Data |-> <<"6", "f">>]),
          Response(FALSE, 200, TRUE, SigFailedMarker, TRUE,
                   [Code |-> 4, RawLog |-> LogSigFailed, Data |-> <<>>])}
    \cup {Response(FALSE, 200, TRUE, <<>>, TRUE, v) : v \in BroadcastValues}

ErrorAccountNotFound == <<"account", "not", "found">>

\* The responses to the GET of the account: value tells whether the body
\* holds an account.
AccountResponses ==
    NoValueResponses(FALSE)
    \cup {Response(FALSE, st, TRUE, ErrorAccountNotFound, TRUE, FALSE) : st \in {200, 404}}
    \cup {Response(FALSE, 200, TRUE, e, TRUE, TRUE) : e \in {<<>>, ErrorAccountNotFound}}

\* parseResponse without its test of the "error" field.
parseResponseAnyBody(resp) ==
    IF ~resp.valid THEN [ok |-> FALSE, err |-> ErrJSON]
    ELSE [ok |-> TRUE, err |-> NoErr]

\* parseResponse: the body, or the error its "error" field carries. The
\* response's status is not looked at.
parseResponse(resp) ==
    IF ~resp.valid THEN [ok |-> FALSE, err |-> ErrJSON]
    ELSE IF resp.error # <<>> THEN [ok |-> FALSE, err |-> Err(resp.error)]
    ELSE [ok |-> TRUE, err |-> NoErr]

\* APIMutate: the transport's error, or parseResponse of the body.
APIMutate(resp) ==
    IF resp.neterr THEN [ok |-> FALSE, err |-> ErrNet]
    ELSE parseResponse(resp)

\* APIQuery: the transport's error, or parseResponse of the body.
APIQuery(resp) ==
    IF resp.neterr THEN [ok |-> FALSE, err |-> ErrNet]
    ELSE parseResponse(resp)

\* The error envelope of a response, if its body is one.
NoEnvelope == [call |-> "", status |-> 0, error |-> <<>>]

Envelope(call, resp) ==
    IF ~resp.neterr /\ resp.valid /\ resp.error # <<>>
    THEN [call |-> call, status |-> resp.status, error |-> resp.error]
    ELSE NoEnvelope

\* APIMutate followed by json.Unmarshal into the response struct.
MutateAndDecode(resp) ==
    IF ~APIMutate(resp).ok THEN APIMutate(resp)
    ELSE IF ~resp.shape THEN [ok |-> FALSE, err |-> ErrUnmarshal]
    ELSE [ok |-> TRUE, err |-> NoErr]

\* -------------------------------------------------------------------- Init

NewTransaction(gasInfo) ==
    [GasInfo |-> gasInfo, done |-> <<>>, closed |-> FALSE,
     result |-> NilResult, err |-> NoErr, broadcastRetries |-> 0]

NoOut == [result |-> NilResult, err |-> NoErr]

\* The history of one Transaction's processing: the network calls made for
\* it, the errors its calls returned, and the last broadcast response.
\* A history counter's next value.
Count(n) == IF n < MaxCount THEN n + 1 ELSE n

NoAccount == [AccountNumber |-> 0, Sequence |-> 0]

\* retries0, seq0: ctx.broadcastRetries and the sequence when processing
\* began; retriesAtPost, seqAtPost: the same at the latest broadcast POST;
\* lastRes: the decoded answer to that POST, if one has arrived; envelope:
\* the error envelope of the latest response; prevMemo: the memo of the
\* attempt before the current one; resynced: the account the latest
\* successful resync obtained.
NewHist(retries, seq) ==
    [nValidate |-> 0, nPost |-> 0, nBackoff |-> 0, nResync |-> 0,
     nConflict |-> 0, retries0 |-> retries, seq0 |-> seq, raised |-> {},
     retriesAtPost |-> retries, seqAtPost |-> seq,
     lastRes |-> NoBroadcastResponse, envelope |-> NoEnvelope,
     prevMemo |-> "", resynced |-> NoAccount]

NoFeeCase == [gas |-> <<>>, G |-> 0, amount |-> <<>>, A |-> 0, parsable |-> FALSE]

NoFeeState ==
    [case |-> NoFeeCase, gasInfo |-> NilGasInfo, fee |-> NoFee,
     first |-> NoFee, runs |-> 0]

PipelineInit ==
    /\ callerPc = [c \in Callers |-> "idle"]
    /\ ret = [c \in Callers |-> NoOut]
    /\ txn = [c \in Callers |-> NewTransaction(NilGasInfo)]
    /\ transactions = <<>>
    /\ \E s \in 0..MaxInitSeq :
          /\ account = [AccountNumber |-> 7, Sequence |-> s]
          /\ ledger = [AccountNumber |-> 7, Sequence |-> s, external |-> 0]
    /\ broadcastRetries = 0
    /\ wpc = "idle"
    /\ cur = 0
    /\ payload = NoPayload
    /\ out = NoOut
    /\ hist = NewHist(0, 0)
    /\ phase = [c \in Callers |-> "new"]
    /\ produced = [c \in Callers |-> NoOut]
    /\ delivered = [c \in Callers |-> 0]
    /\ streak = [n |-> 0, base |-> account.Sequence]
    /\ order = <<>>

NoLease == [Days |-> 0, Hours |-> 0, Minutes |-> 0, Seconds |-> 0]

NoLeaseState == [lease |-> NoLease, blocks |-> 0, done |-> FALSE]

Init ==
    /\ PipelineInit
    /\ feeState = NoFeeState
    /\ leaseState = NoLeaseState

\* ----------------------------------------------------------------- callers

\* SendTransaction up to the send on ctx.transactions, which blocks while
\* the channel is full.
SendTransaction(c, gasInfo) ==
    /\ callerPc[c] = "idle"
    /\ Len(transactions) < ChanCap
    /\ txn' = [txn EXCEPT ![c] = NewTransaction(gasInfo)]
    /\ transactions' = Append(transactions, c)
    /\ callerPc' = [callerPc EXCEPT ![c] = "waiting"]
    /\ phase' = [phase EXCEPT ![c] = "queued"]
    /\ order' = Append(order, [txn |-> c, ahead |-> Len(transactions)])
    /\ UNCHANGED <<ret, account, broadcastRetries, wpc, cur, payload, out,
                   ledger, hist, produced, delivered, streak, feeState,
                   leaseState>>

\* done := <-txn.done: the value sent, or false from a closed empty channel,
\* on which SendTransaction calls Fatalf.
SendTransactionReceive(c) ==
    /\ callerPc[c] = "waiting"
    /\ txn[c].done # <<>> \/ txn[c].closed
    /\ callerPc' = [callerPc EXCEPT ![c] =
          IF txn[c].done # <<>> /\ Head(txn[c].done) THEN "unblocked" ELSE "fatal"]
    /\ txn' = [txn EXCEPT ![c].done =
          IF txn[c].done # <<>> THEN Tail(txn[c].done) ELSE <<>>]
    /\ UNCHANGED <<ret, transactions, account, broadcastRetries, wpc, cur,
                   payload, out, ledger, hist, phase, produced, delivered,
                   streak, feeState,
                   leaseState, order>>

\* return txn.result, txn.err
SendTransactionReturn(c) ==
    /\ callerPc[c] = "unblocked"
    /\ ret' = [ret EXCEPT ![c] = [result |-> txn[c].result, err |-> txn[c].err]]
    /\ callerPc' = [callerPc EXCEPT ![c] = "returned"]
    /\ UNCHANGED <<txn, transactions, account, broadcastRetries, wpc, cur,
                   payload, out, ledger, hist, phase, produced, delivered,
                   streak, feeState,
                   leaseState, order>>

\* The caller has used what SendTransaction returned and drops it together
\* with its Transaction.
CallerExit(c) ==
    /\ callerPc[c] = "returned"
    /\ txn[c].closed
    /\ callerPc' = [callerPc EXCEPT ![c] = "exited"]
    /\ ret' = [ret EXCEPT ![c] = NoOut]
    /\ txn' = [txn EXCEPT ![c] = NewTransaction(NilGasInfo)]
    /\ produced' = [produced EXCEPT ![c] = NoOut]
    /\ UNCHANGED <<transactions, account, broadcastRetries, wpc, cur, payload,
                   out, ledger, hist, phase, delivered, streak, feeState,
                   leaseState, order>>

\* ------------------------------------------------------------------ worker

\* A worker that takes the next Transaction whatever it is doing, as one
\* that starts a goroutine per Transaction would.
WorkerAlwaysReceives == TRUE

\* Whether the worker is at its receive on ctx.transactions.
WorkerAtReceive == wpc = "idle"

\* A worker that takes the Transaction sent last.
WorkerReceiveNewest ==
    /\ WorkerAtReceive
    /\ transactions # <<>>
    /\ cur' = transactions[Len(transactions)]
    /\ transactions' = SubSeq(transactions, 1, Len(transactions) - 1)
    /\ wpc' = "process"
    /\ phase' = [phase EXCEPT ![transactions[Len(transactions)]] = "processing"]
    /\ UNCHANGED <<callerPc, ret, txn, account, broadcastRetries, payload, out,
                   ledger, hist, produced, delivered, streak, feeState,
                   leaseState, order>>

\* The worker: for txn := range ctx.transactions { ProcessTransaction(txn) }
WorkerReceive ==
    /\ WorkerAtReceive
    /\ transactions # <<>>
    /\ cur' = Head(transactions)
    /\ transactions' = Tail(transactions)
    /\ wpc' = "process"
    /\ phase' = [phase EXCEPT ![Head(transactions)] = "processing"]
    /\ UNCHANGED <<callerPc, ret, txn, account, broadcastRetries, payload, out,
                   ledger, hist, produced, delivered, streak, feeState,
                   leaseState, order>>

\* ProcessTransaction's entry and ValidateTransaction up to its POST.
ProcessTransaction ==
    /\ wpc = "process"
    /\ txn' = [txn EXCEPT ![cur].broadcastRetries = 0]
    /\ hist' = [NewHist(broadcastRetries, account.Sequence) EXCEPT !.nValidate = 1]
    /\ payload' = NoPayload
    /\ out' = NoOut
    /\ wpc' = "validate"
    /\ UNCHANGED <<callerPc, ret, transactions, account, broadcastRetries, cur,
                   ledger, phase, produced, delivered, streak, feeState,
                   leaseState, order>>

\* ValidateTransaction from the POST's answer on, with a ProcessTransaction
\* that calls BroadcastTransaction whatever ValidateTransaction returned.
ValidateTransactionThenBroadcast(resp) ==
    /\ wpc = "validate"
    /\ IF MutateAndDecode(resp).ok
       THEN /\ payload' = resp.value
            /\ wpc' = "broadcast"
            /\ hist' = [hist EXCEPT !.envelope = Envelope("validate", resp)]
            /\ UNCHANGED out
       ELSE /\ out' = [result |-> NilResult, err |-> MutateAndDecode(resp).err]
            /\ hist' = [hist EXCEPT !.raised = @ \cup {MutateAndDecode(resp).err},
                                    !.envelope = Envelope("validate", resp)]
            /\ wpc' = "broadcast"
            /\ UNCHANGED payload
    /\ UNCHANGED <<callerPc, ret, txn, transactions, account, broadcastRetries,
                   cur, ledger, phase, produced, delivered, streak, feeState,
                   leaseState, order>>

\* ValidateTransaction from the POST's answer on, and ProcessTransaction's
\* test of its error.
ValidateTransaction(resp) ==
    /\ wpc = "validate"
    /\ IF MutateAndDecode(resp).ok
       THEN /\ payload' = resp.value
            /\ wpc' = "broadcast"
            /\ hist' = [hist EXCEPT !.envelope = Envelope("validate", resp)]
            /\ UNCHANGED out
       ELSE /\ out' = [result |-> NilResult, err |-> MutateAndDecode(resp).err]
            /\ hist' = [hist EXCEPT !.raised = @ \cup {MutateAndDecode(resp).err},
                                    !.envelope = Envelope("validate", resp)]
            /\ wpc' = "deliver"
            /\ UNCHANGED payload
    /\ UNCHANGED <<callerPc, ret, txn, transactions, account, broadcastRetries,
                   cur, ledger, phase, produced, delivered, streak, feeState,
                   leaseState, order>>

\* The canonical payload SignTransaction serialises and hashes (chain id and
\* messages are fixed per Transaction and left out).
SignPayload(p, acct) ==
    [AccountNumber |-> Itoa(acct.AccountNumber), Fee |-> p.Fee,
     Memo |-> p.Memo, Sequence |-> Itoa(acct.Sequence)]

\* SignTransaction: the signature stands for the payload it signs.
SignTransaction(p, acct, keyOK) ==
    IF keyOK
    THEN [signature |-> <<SignPayload(p, acct)>>, err |-> NoErr]
    ELSE [signature |-> <<>>, err |-> ErrSign]

\* A TransactionSignature made from the sequence the processing began with.
TransactionSignatureAtStart(p, acct) ==
    [AccountNumber |-> Itoa(acct.AccountNumber),
     Sequence |-> Itoa(hist.seq0),
     Signature |-> SignTransaction(p, [acct EXCEPT !.Sequence = hist.seq0],
                                   TRUE).signature]

\* The TransactionSignature BroadcastTransaction attaches.
TransactionSignature(p, acct) ==
    [AccountNumber |-> Itoa(acct.AccountNumber),
     Sequence |-> Itoa(acct.Sequence),
     Signature |-> SignTransaction(p, acct, TRUE).signature]

\* BroadcastTransaction from its entry to its POST: memo, gas_info test, fee,
\* signature. An unparsable template gas is logged and processing goes on
\* with gas 0.
BroadcastTransactionPrepare(memo, keyOK) ==
    LET p1 == [payload EXCEPT !.Memo = memo]
        gi == txn[cur].GasInfo
        p2 == [p1 EXCEPT !.Fee = ResolveFee(p1.Fee, gi)]
        h1 == [hist EXCEPT !.raised =
                  IF Atoi(p1.Fee.Gas).ok THEN @ ELSE @ \cup {ErrAtoiGas}]
    IN  /\ wpc = "broadcast"
        /\ IF gi.nil
           THEN /\ payload' = p1
                /\ out' = [result |-> NilResult, err |-> ErrGasInfo]
                /\ hist' = [hist EXCEPT !.raised = @ \cup {ErrGasInfo}]
                /\ wpc' = "deliver"
           ELSE IF ~SignTransaction(p2, account, keyOK).err.nil
           THEN /\ payload' = p2
                /\ out' = [result |-> NilResult,
                           err |-> SignTransaction(p2, account, keyOK).err]
                /\ hist' = [h1 EXCEPT !.raised = @ \cup {ErrSign}]
                /\ wpc' = "deliver"
           ELSE /\ payload' = [p2 EXCEPT !.Signatures =
                                  <<TransactionSignature(p2, account)>>]
                /\ out' = out
                /\ hist' = [h1 EXCEPT !.nPost = Count(@),
                               !.retriesAtPost = broadcastRetries,
                               !.seqAtPost = account.Sequence,
                               !.lastRes = NoBroadcastResponse,
                               !.prevMemo = payload.Memo]
                /\ wpc' = "post"
        /\ UNCHANGED <<callerPc, ret, txn, transactions, account,
                       broadcastRetries, cur, ledger, phase, produced,
                       delivered, streak, feeState,
                   leaseState, order>>

\* Classify with the marker looked for before the code.
ClassifyLogFirst(res) ==
    IF Contains(res.RawLog, SigFailedMarker) THEN "Conflict"
    ELSE IF res.Code = 0 THEN "Success"
    ELSE "Fatal"

\* How BroadcastTransaction reads a decoded response: the code first, then
\* the marker in raw_log.
Classify(res) ==
    IF res.Code = 0 THEN "Success"
    ELSE IF Contains(res.RawLog, SigFailedMarker) THEN "Conflict"
    ELSE "Fatal"

\* A success that leaves the sequence as it was.
SequenceUnchanged(seq) == seq

\* ctx.account.Sequence += 1
SequenceAfterSuccess(seq) == seq + 1

\* A conflict that is not counted.
RetriesStuck(n) == n

\* ctx.broadcastRetries += 1
RetriesAfterConflict(n) == n + 1

\* The bound tested with > in place of >=.
RetriesExhaustedLate(n) == n > BROADCAST_MAX_RETRIES

\* ctx.broadcastRetries >= BROADCAST_MAX_RETRIES
RetriesExhausted(n) == n >= BROADCAST_MAX_RETRIES

\* What BroadcastTransaction returns on code zero.
SuccessResult(res) ==
    IF res.Data = <<>> THEN [result |-> EmptyResult, err |-> NoErr]
    ELSE DecodeString(res.Data)

\* An increment that waits for the data to decode.
AccountAfterDecodedSuccess(acct, res) ==
    IF SuccessResult(res).err.nil
    THEN [acct EXCEPT !.Sequence = SequenceAfterSuccess(@)]
    ELSE acct

\* The code-zero branch: the increment comes first, whatever the data is.
AccountAfterSuccess(acct, res) ==
    [acct EXCEPT !.Sequence = SequenceAfterSuccess(@)]

\* BroadcastTransaction from the POST's answer on. The ledger has committed
\* the transaction exactly when it answers with code zero.
BroadcastTransactionResponse(resp) ==
    LET res == resp.value
        h0 == [hist EXCEPT !.envelope = Envelope("broadcast", resp)]
        fail(e) ==
            /\ out' = [result |-> NilResult, err |-> e]
            /\ wpc' = "deliver"
    IN  /\ wpc = "post"
        /\ IF ~MutateAndDecode(resp).ok
           THEN /\ fail(MutateAndDecode(resp).err)
                /\ hist' = [h0 EXCEPT !.raised = @ \cup {MutateAndDecode(resp).err}]
                /\ UNCHANGED <<account, broadcastRetries, ledger>>
           ELSE IF Classify(res) = "Success"
           THEN /\ account' = AccountAfterSuccess(account, res)
                /\ out' = SuccessResult(res)
                /\ wpc' = "deliver"
                /\ hist' = [h0 EXCEPT !.lastRes = res,
                               !.raised = IF SuccessResult(res).err.nil THEN @
                                          ELSE @ \cup {SuccessResult(res).err}]
                /\ ledger' = [ledger EXCEPT !.Sequence = @ + 1]
                /\ UNCHANGED broadcastRetries
           ELSE IF Classify(res) = "Conflict"
           THEN /\ broadcastRetries' = RetriesAfterConflict(broadcastRetries)
                /\ IF RetriesExhausted(broadcastRetries')
                   THEN /\ fail(ErrMaxRetries)
                        /\ hist' = [h0 EXCEPT !.lastRes = res,
                                       !.nConflict = Count(@),
                                       !.raised = @ \cup {ErrMaxRetries}]
                   ELSE /\ wpc' = "backoff"
                        /\ out' = out
                        /\ hist' = [h0 EXCEPT !.lastRes = res,
                                       !.nConflict = Count(@)]
                /\ UNCHANGED <<account, ledger>>
           ELSE /\ fail(Err(res.RawLog))
                /\ hist' = [h0 EXCEPT !.lastRes = res,
                               !.raised = @ \cup {Err(res.RawLog)}]
                /\ UNCHANGED <<account, broadcastRetries, ledger>>
        /\ UNCHANGED <<callerPc, ret, txn, transactions, cur, payload, phase,
                       produced, delivered, streak, feeState,
                   leaseState, order>>

\* A backoff that also guesses the next sequence instead of leaving it to
\* the resync.
BroadcastTransactionBackoffGuess ==
    /\ wpc = "backoff"
    /\ wpc' = "resync"
    /\ account' = [account EXCEPT !.Sequence = @ + 1]
    /\ hist' = [hist EXCEPT !.nBackoff = Count(@)]
    /\ UNCHANGED <<callerPc, ret, txn, transactions, broadcastRetries,
                   cur, payload, out, ledger, phase, produced, delivered,
                   streak, feeState,
                   leaseState, order>>

\* time.Sleep(BROADCAST_RETRY_INTERVAL)
BroadcastTransactionBackoff ==
    /\ wpc = "backoff"
    /\ wpc' = "resync"
    /\ hist' = [hist EXCEPT !.nBackoff = Count(@)]
    /\ UNCHANGED <<callerPc, ret, txn, transactions, account, broadcastRetries,
                   cur, payload, out, ledger, phase, produced, delivered,
                   streak, feeState,
                   leaseState, order>>

\* setAccount: re-fetch the account from the ledger with a GET; a body
\* that holds no account is an error.
setAccount(resp) ==
    IF ~APIQuery(resp).ok
    THEN [account |-> account, err |-> APIQuery(resp).err]
    ELSE IF ~(resp.shape /\ resp.value)
    THEN [account |-> account, err |-> ErrSetAccount]
    ELSE [account |-> [AccountNumber |-> ledger.AccountNumber,
                       Sequence |-> ledger.Sequence],
          err |-> NoErr]

\* The resync after the backoff, and the recursive call on its success.
BroadcastTransactionResync(resp) ==
    /\ wpc = "resync"
    /\ account' = setAccount(resp).account
    /\ IF setAccount(resp).err.nil
       THEN /\ wpc' = "broadcast"
            /\ out' = out
            /\ hist' = [hist EXCEPT !.nResync = Count(@),
                                    !.envelope = Envelope("account", resp),
                                    !.resynced = setAccount(resp).account]
       ELSE /\ wpc' = "deliver"
            /\ out' = [result |-> NilResult, err |-> setAccount(resp).err]
            /\ hist' = [hist EXCEPT !.nResync = Count(@),
                           !.raised = @ \cup {setAccount(resp).err},
                           !.envelope = Envelope("account", resp)]
    /\ UNCHANGED <<callerPc, ret, txn, transactions, broadcastRetries, cur,
                   payload, ledger, phase, produced, delivered, streak,
                   feeState,
                   leaseState, order>>

\* Whether the Transaction just processed got code zero on its only POST.
FirstTrySuccess == hist.nPost = 1 /\ hist.lastRes.Code = 0

\* ProcessTransactionDeliver without the assignment txn.err = err.
ProcessTransactionDeliverNoErr ==
    /\ wpc = "deliver"
    /\ txn' = [txn EXCEPT ![cur].result = out.result,
                          ![cur].done = Append(@, TRUE)]
    /\ produced' = [produced EXCEPT ![cur] = out]
    /\ delivered' = [delivered EXCEPT ![cur] = @ + 1]
    /\ streak' = IF FirstTrySuccess
                 THEN [streak EXCEPT !.n = @ + 1]
                 ELSE [n |-> 0, base |-> account.Sequence]
    /\ wpc' = "close"
    /\ payload' = NoPayload
    /\ out' = NoOut
    /\ hist' = NewHist(0, 0)
    /\ UNCHANGED <<callerPc, ret, transactions, account, broadcastRetries,
                   cur, ledger, phase, feeState,
                   leaseState, order>>

\* ProcessTransaction: txn.result, txn.err and the send on txn.done. Its
\* locals are not read again and end here.
ProcessTransactionDeliver ==
    /\ wpc = "deliver"
    /\ txn' = [txn EXCEPT ![cur].result = out.result,
                          ![cur].err = out.err,
                          ![cur].done = Append(@, TRUE)]
    /\ produced' = [produced EXCEPT ![cur] = out]
    /\ delivered' = [delivered EXCEPT ![cur] = @ + 1]
    /\ streak' = IF FirstTrySuccess
                 THEN [streak EXCEPT !.n = @ + 1]
                 ELSE [n |-> 0, base |-> account.Sequence]
    /\ wpc' = "close"
    /\ payload' = NoPayload
    /\ out' = NoOut
    /\ hist' = NewHist(0, 0)
    /\ UNCHANGED <<callerPc, ret, transactions, account, broadcastRetries,
                   cur, ledger, phase, feeState,
                   leaseState, order>>

\* close(txn.done) and the return to the worker's loop.
ProcessTransactionClose ==
    /\ wpc = "close"
    /\ txn' = [txn EXCEPT ![cur].closed = TRUE]
    /\ phase' = [phase EXCEPT ![cur] = "done"]
    /\ wpc' = "idle"
    /\ UNCHANGED <<callerPc, ret, transactions, account, broadcastRetries,
                   cur, payload, out, ledger, hist, produced, delivered,
                   streak, feeState,
                   leaseState, order>>

\* ------------------------------------------------------------- environment

\* Another client's transaction uses the account: the ledger's sequence
\* moves on without this client.
ExternalTx ==
    /\ ledger.external < MaxExternal
    /\ ledger' = [ledger EXCEPT !.Sequence = @ + 1, !.external = @ + 1]
    /\ UNCHANGED <<callerPc, ret, txn, transactions, account, broadcastRetries,
                   wpc, cur, payload, out, hist, phase, produced, delivered,
                   streak, feeState,
                   leaseState, order>>

\* -------------------------------------------------------------------- Spec

Caller(c, gasInfos) ==
    \/ \E g \in gasInfos : SendTransaction(c, g)
    \/ SendTransactionReceive(c)
    \/ SendTransactionReturn(c)
    \/ CallerExit(c)

Worker(validateResponses, broadcastResponses, accountResponses, memos, keys) ==
    \/ WorkerReceive
    \/ ProcessTransaction
    \/ \E resp \in validateResponses : ValidateTransaction(resp)
    \/ \E memo \in memos, keyOK \in keys : BroadcastTransactionPrepare(memo, keyOK)
    \/ \E resp \in broadcastResponses : BroadcastTransactionResponse(resp)
    \/ BroadcastTransactionBackoff
    \/ \E resp \in accountResponses : BroadcastTransactionResync(resp)
    \/ ProcessTransactionDeliver
    \/ ProcessTransactionClose

\* The answers of a ledger that is reachable and well-formed: a transport
\* failure or a template to a validate POST; success with data, a sequence
\* conflict or a fatal log to a broadcast POST; a transport failure or the
\* account to the GET of the account.
FewValidateResponses ==
    {r \in ValidateResponses : r.neterr \/ (r.shape /\ r.error = <<>> /\ Atoi(r.value.Fee.Gas).ok)}

FewAccountResponses ==
    {r \in AccountResponses : r.neterr \/ (r.shape /\ r.error = <<>>)}

FewBroadcastResponses ==
    {r \in BroadcastResponses :
        /\ r.shape /\ r.error = <<>>
        /\ r.value \in {[Code |-> 0, RawLog |-> LogOK, Data |-> <<"6", "f">>],
                        [Code |-> 4, RawLog |-> LogSigFailed, Data |-> <<>>],
                        [Code |-> 4, RawLog |-> LogOutOfGas, Data |-> <<>>]}}

\* Any number of callers at once, against the well-formed ledger, the
\* account used by this client alone.
Next ==
    \/ \E c \in Callers : Caller(c, GasInfos)
    \/ Worker(FewValidateResponses, FewBroadcastResponses, FewAccountResponses,
             {"memoA"}, {TRUE})

Spec == Init /\ [][Next]_vars

\* No other caller is inside SendTransaction.
OneAtATime(c) == \A d \in Callers \ {c} : callerPc[d] \in {"idle", "exited"}

\* One submission after the other, against every answer of the ledger and
\* with other clients using the account.
SeqNext ==
    \/ \E c \in Callers :
          /\ callerPc[c] = "idle" => OneAtATime(c)
          /\ Caller(c, GasInfos)
    \/ Worker(ValidateResponses, BroadcastResponses, AccountResponses, Memos,
             BOOLEAN)
    \/ ExternalTx

SeqSpec == Init /\ [][SeqNext]_vars

\* ----------------------------------------------------------------- FeeSpec

\* Template gas strings with the numbers they spell.
FeeGasCases ==
    {<<<<"0">>, 0>>, <<<<"2", "9">>, 29>>, <<<<"3", "0">>, 30>>,
     <<<<"3", "1">>, 31>>, <<<<"5", "0">>, 50>>}

\* Template fee amounts: none, one, or two, with the number the first
\* spells.
FeeAmountCases ==
    {<<<<>>, 0>>, <<<<[Denom |-> "ubnt", Amount |-> <<"7">>]>>, 7>>,
     <<<<[Denom |-> "ubnt", Amount |-> <<"7">>],
         [Denom |-> "bnt", Amount |-> <<"2", "9">>]>>, 7>>}

\* Templates for the fee resolution: gas G and amount A (0 if absent) as
\* the strings of the template, and templates whose gas or amount is no
\* number (parsable = FALSE).
FeeCases ==
    {[gas |-> g[1], G |-> g[2], amount |-> a[1], A |-> a[2], parsable |-> TRUE] :
        g \in FeeGasCases, a \in FeeAmountCases}
    \cup {[gas |-> <<"a", "b", "c">>, G |-> 0, amount |-> <<>>, A |-> 0,
           parsable |-> FALSE],
          [gas |-> <<"5", "0">>, G |-> 50,
           amount |-> <<[Denom |-> "ubnt", Amount |-> <<"x">>]>>, A |-> 0,
           parsable |-> FALSE]}

FeeGasInfos ==
    {GasInfo(maxGas, maxFee, gasPrice) :
        maxGas \in {0, 30, 50}, maxFee \in {0, 100}, gasPrice \in {0, 5}}

FeeInit ==
    /\ PipelineInit
    /\ \E c \in FeeCases, g \in FeeGasInfos :
          feeState = [case |-> c, gasInfo |-> g,
                      fee |-> [Gas |-> c.gas, Amount |-> c.amount],
                      first |-> NoFee, runs |-> 0]
    /\ leaseState = NoLeaseState

\* One run of BroadcastTransaction's fee resolution on the payload's fee:
\* the first attempt runs it on the template, a retry on its own output.
FeeResolve ==
    /\ feeState.runs < MaxFeeRuns
    /\ feeState' = [feeState EXCEPT
          !.fee = ResolveFee(feeState.fee, feeState.gasInfo),
          !.first = IF feeState.runs = 0
                    THEN ResolveFee(feeState.fee, feeState.gasInfo)
                    ELSE @,
          !.runs = @ + 1]
    /\ UNCHANGED <<pipelineVars, leaseState>>

FeeNext == FeeResolve

FeeSpec == FeeInit /\ [][FeeNext]_vars

\* --------------------------------------------------------------- LeaseSpec

\* The leases ToBlocks is applied to: whole days, hours and minutes, alone
\* and together, and seconds that do and do not fill a block.
Leases ==
    {LeaseInfo(d, h, m, sec) :
        d \in {0, 1, 2}, h \in {0, 1, 25}, m \in {0, 1, 61},
        sec \in {0 - 4, 0, 4, 5, 9, 3601}}

LeaseInit ==
    /\ PipelineInit
    /\ feeState = NoFeeState
    /\ \E l \in Leases :
          leaseState = [lease |-> l, blocks |-> 0, done |-> FALSE]

\* One call of ToBlocks on the lease.
LeaseToBlocks ==
    /\ ~leaseState.done
    /\ leaseState' = [leaseState EXCEPT !.blocks = ToBlocks(leaseState.lease),
                                        !.done = TRUE]
    /\ UNCHANGED <<pipelineVars, feeState>>

LeaseNext == LeaseToBlocks

LeaseSpec == LeaseInit /\ [][LeaseNext]_vars

\* A step of a goroutine that is already inside the pipeline: the worker's
\* (every HTTP call, backoff and resync returns), or a caller's after its
\* send.
Progress ==
    \/ Worker(FewValidateResponses, FewBroadcastResponses, FewAccountResponses,
             {"memoA"}, {TRUE})
    \/ \E c \in Callers : SendTransactionReceive(c) \/ SendTransactionReturn(c)

\* The scheduler runs some goroutine that can take a step.
LiveSpec == Spec /\ WF_vars(Progress)

\* ------------------------------------------------------------------ claims

\* The worker has the outcome of cur in hand and has not yet delivered it.
AtOutcome == wpc = "deliver"

\* C1: every SendTransaction is unblocked exactly once, by the value the
\* worker sent on its own Transaction's done channel (never by the close,
\* never twice), and returns the result and error the worker computed for
\* that Transaction.
C1_UnblockedOnceWithOwnOutcome ==
    \A c \in Callers :
        /\ delivered[c] <= 1
        /\ Len(txn[c].done) <= 1
        /\ callerPc[c] # "fatal"
        /\ callerPc[c] \in {"unblocked", "returned"} =>
              delivered[c] = 1 /\ txn[c].done = <<>>
        /\ callerPc[c] = "unblocked" =>
              [result |-> txn[c].result, err |-> txn[c].err] = produced[c]
        /\ callerPc[c] = "returned" => ret[c] = produced[c]

\* Two callers have returned, one with a result and one with an error.
C1_Witness ==
    \E c, d \in Callers :
        /\ callerPc[c] = "returned" /\ callerPc[d] = "returned"
        /\ ret[c].err.nil /\ ret[c].result.bytes # <<>>
        /\ ~ret[d].err.nil

\* C2: at most one Transaction is between the worker's receive and the end
\* of its ProcessTransaction, and it is the worker's current one: while a
\* validate POST, broadcast POST, backoff or resync is outstanding no other
\* Transaction has been started.
C2_OneInPipeline ==
    /\ Cardinality({c \in Callers : phase[c] = "processing"}) <= 1
    /\ \A c \in Callers : phase[c] = "processing" => (c = cur /\ wpc # "idle")
    /\ wpc # "idle" => phase[cur] = "processing"

\* A broadcast POST is outstanding while another Transaction waits in the
\* channel.
C2_Witness ==
    /\ wpc = "post"
    /\ \E c \in Callers : c # cur /\ phase[c] = "queued"

ResyncErrors == {ErrNet, ErrJSON, ErrSetAccount, Err(ErrorAccountNotFound)}

\* C4: on a client without earlier conflicts, a submission that ends with
\* the retry-exhausted error has made exactly 10 broadcast POSTs, all
\* answered by a conflict, with 9 backoffs and 9 resyncs; and a submission
\* whose every POST met a conflict and whose signing and resyncs succeeded
\* ends with that error.
C4_TenPostsNineResyncs ==
    (AtOutcome /\ hist.retries0 = 0) =>
        /\ out.err = ErrMaxRetries =>
              /\ hist.nPost = 10 /\ hist.nConflict = 10
              /\ hist.nResync = 9 /\ hist.nBackoff = 9
        /\ (/\ hist.nPost >= 1
            /\ hist.nConflict = hist.nPost
            /\ out.err \notin {ErrSign} \cup ResyncErrors) =>
              out.err = ErrMaxRetries

\* A submission on a fresh client has ended with the retry-exhausted error.
C4_Witness ==
    /\ wpc = "deliver"
    /\ hist.retries0 = 0
    /\ out.err = ErrMaxRetries

\* C5: a submission that gets code zero on its only broadcast leaves the
\* sequence exactly one above where it began, and after streak.n such
\* submissions in a row the sequence is streak.n above where the row began.
C5_SequencePlusN ==
    /\ (AtOutcome /\ FirstTrySuccess) => account.Sequence = hist.seq0 + 1
    /\ wpc \in {"idle", "process"} => account.Sequence = streak.base + streak.n

\* NumCallers submissions in a row have each succeeded on the first try.
C5_Witness ==
    /\ wpc = "idle"
    /\ streak.n = NumCallers
    /\ account.Sequence = streak.base + NumCallers

\* C6 (the claim as stated): a Transaction without GasInfo ends with the
\* gas_info error and no validate POST and no broadcast POST was made for
\* it.
C6_NoNetworkCallWithoutGasInfo ==
    (AtOutcome /\ txn[cur].GasInfo.nil) =>
        /\ out.err = ErrGasInfo
        /\ hist.nValidate = 0
        /\ hist.nPost = 0

\* C7 (the claim as stated): SendTransaction returns a result and no
\* error, or an error and a nil result.
C7_ResultXorError ==
    \A c \in Callers :
        callerPc[c] = "returned" => (ret[c].result.nil <=> ~ret[c].err.nil)

\* C8 (the claim as stated): once a call made for a Transaction has
\* returned an error, processing has stopped and that error is the one
\* delivered.
C8_NoErrorSwallowed ==
    hist.raised # {} => (AtOutcome /\ out.err \in hist.raised)

\* The decimal strings of the numbers the fee resolution can yield.
Decimal(n) ==
    CASE n = 0 -> <<"0">>
      [] n = 7 -> <<"7">>
      [] n = 29 -> <<"2", "9">>
      [] n = 30 -> <<"3", "0">>
      [] n = 31 -> <<"3", "1">>
      [] n = 50 -> <<"5", "0">>
      [] n = 100 -> <<"1", "0", "0">>
      [] n = 145 -> <<"1", "4", "5">>
      [] n = 150 -> <<"1", "5", "0">>
      [] n = 155 -> <<"1", "5", "5">>
      [] n = 250 -> <<"2", "5", "0">>

\* The reference fee resolution of the claim, on numbers.
RefGas(G, maxGas) == IF maxGas # 0 /\ G > maxGas THEN maxGas ELSE G

RefAmount(G, A, maxGas, maxFee, gasPrice) ==
    CASE maxFee # 0 -> maxFee
      [] maxFee = 0 /\ gasPrice # 0 -> RefGas(G, maxGas) * gasPrice
      [] maxFee = 0 /\ gasPrice = 0 -> A

\* C9: for every template with gas G and amount A and every GasInfo, the
\* first fee resolution yields the reference gas and the reference amount
\* in ubnt; with the three examples of the claim.
C9_FeeResolution ==
    LET c == feeState.case
        g == feeState.gasInfo
    IN  (feeState.runs >= 1 /\ c.parsable) =>
            /\ feeState.first.Gas = Decimal(RefGas(c.G, g.MaxGas))
            /\ feeState.first.Amount =
                  <<[Denom |-> "ubnt",
                     Amount |-> Decimal(RefAmount(c.G, c.A, g.MaxGas, g.MaxFee, g.GasPrice))]>>
            /\ (c.G = 50 /\ g.MaxFee = 100 /\ g.GasPrice = 5) =>
                  feeState.first.Amount[1].Amount = <<"1", "0", "0">>
            /\ (c.G = 50 /\ g = GasInfo(0, 0, 5)) =>
                  feeState.first.Amount[1].Amount = <<"2", "5", "0">>
            /\ (c.G = 50 /\ g.MaxGas = 30) =>
                  feeState.first.Gas = <<"3", "0">>

\* Both max_fee and gas_price are set, and the gas was clamped.
C9_Witness ==
    /\ feeState.runs = 1
    /\ feeState.case.G = 50
    /\ feeState.gasInfo = GasInfo(30, 100, 5)
    /\ feeState.first.Gas = <<"3", "0">>
    /\ feeState.first.Amount[1].Amount = <<"1", "0", "0">>

\* The logs of the ledger that contain the marker.
MarkerLogs == {LogSigFailed}

\* C10: after a decoded broadcast response, code zero has been taken as a
\* success whatever the log says (sequence + 1, no retry counted, the data
\* returned); a nonzero code with the marker as a conflict (retry counted,
\* sequence kept, backoff or retry-exhausted); any other nonzero code as
\* fatal (nothing counted, raw_log returned verbatim as the error).
C10_CodeFirstThenLog ==
    LET res == hist.lastRes
        justAnswered ==
            /\ res # NoBroadcastResponse
            /\ \/ wpc = "backoff"
               \/ AtOutcome /\ hist.nResync < hist.nPost
    IN  justAnswered =>
            /\ res.Code = 0 =>
                  /\ AtOutcome
                  /\ account.Sequence = hist.seqAtPost + 1
                  /\ broadcastRetries = hist.retriesAtPost
                  /\ ~out.result.nil
                  /\ out.err \in {NoErr, ErrHexByte, ErrHexLength}
            /\ (res.Code # 0 /\ res.RawLog \in MarkerLogs) =>
                  /\ account.Sequence = hist.seqAtPost
                  /\ broadcastRetries = hist.retriesAtPost + 1
                  /\ wpc = "backoff" \/ out = [result |-> NilResult, err |-> ErrMaxRetries]
            /\ (res.Code # 0 /\ res.RawLog \notin MarkerLogs) =>
                  /\ AtOutcome
                  /\ account.Sequence = hist.seqAtPost
                  /\ broadcastRetries = hist.retriesAtPost
                  /\ out = [result |-> NilResult, err |-> Err(res.RawLog)]

\* Code zero arrived with the marker in its log and was taken as a success.
C10_Witness ==
    /\ wpc = "deliver"
    /\ hist.lastRes.Code = 0
    /\ hist.lastRes.RawLog \in MarkerLogs
    /\ out.err.nil

\* C11: after a response whose body carries a nonempty "error" field,
\* whatever its status and whatever else the body holds, the submission
\* ends with an error of exactly that text and a nil result; when the
\* response answered a broadcast, the sequence and the retry counter are
\* as they were at the POST and the body has not been read as a broadcast
\* response; when it answered a validate, no broadcast POST is made; when
\* it answered the GET of the account, the account is as it was.
C11_ErrorEnvelopeSurfaced ==
    hist.envelope # NoEnvelope =>
        /\ AtOutcome
        /\ out = [result |-> NilResult, err |-> Err(hist.envelope.error)]
        /\ account.Sequence = hist.seqAtPost
        /\ hist.envelope.call = "validate" => hist.nPost = 0
        /\ hist.envelope.call = "broadcast" =>
              /\ hist.lastRes = NoBroadcastResponse
              /\ broadcastRetries = hist.retriesAtPost
              /\ hist.nConflict = hist.nPost - 1
              /\ hist.nBackoff = hist.nPost - 1

\* A broadcast was answered under status 200 by an error envelope whose
\* text is the conflict marker, and the submission ends with that text.
C11_Witness ==
    /\ wpc = "deliver"
    /\ hist.envelope = [call |-> "broadcast", status |-> 200, error |-> SigFailedMarker]
    /\ out.err = Err(SigFailedMarker)

\* C12 (the claim as stated): a retry's broadcast POST carries a memo that
\* differs from the memo of the attempt before it.
C12_ConsecutiveMemosDiffer ==
    (wpc = "post" /\ hist.nPost >= 2) => payload.Memo # hist.prevMemo

\* C13: for a lease without a negative field, ToBlocks is the number of
\* whole 5-second blocks in days*86400 + hours*3600 + minutes*60 + seconds,
\* the remainder dropped: one day is 17280 blocks, 4 seconds are none, 9
\* seconds are one.
C13_ToBlocksFloor ==
    LET l == leaseState.lease
        total == l.Days * 86400 + l.Hours * 3600 + l.Minutes * 60 + l.Seconds
        b == leaseState.blocks
    IN  (/\ leaseState.done
         /\ l.Days >= 0 /\ l.Hours >= 0 /\ l.Minutes >= 0 /\ l.Seconds >= 0) =>
            /\ 5 * b <= total
            /\ total < 5 * b + 5
            /\ l = LeaseInfo(1, 0, 0, 0) => b = 17280
            /\ l = LeaseInfo(0, 0, 0, 4) => b = 0
            /\ l = LeaseInfo(0, 0, 0, 9) => b = 1

\* ToBlocks has dropped the remainder of a lease of one day and 9 seconds.
C13_Witness ==
    /\ leaseState.done
    /\ leaseState.lease = LeaseInfo(1, 0, 0, 9)
    /\ leaseState.blocks = 17281

\* C14 (the claim as stated): the counter that the retry bound is tested on
\* is zero when the processing of a Transaction begins, and a submission
\* that ends with the retry-exhausted error has made 10 broadcast POSTs,
\* whatever happened to the Transactions before it.
C14_RetriesPerRecord ==
    /\ wpc = "validate" => hist.retries0 = 0
    /\ (AtOutcome /\ out.err = ErrMaxRetries) =>
          hist.nPost = BROADCAST_MAX_RETRIES

\* C15: when the k-th broadcast POST of a Transaction is made, k-1
\* conflicts, k-1 backoffs and k-1 resyncs, all successful, have gone
\* before it, each backoff before its resync; the signature record of every
\* attempt carries the account number and sequence of the payload that was
\* signed, and from the second attempt on these are the ones the latest
\* resync obtained.
C15_ResyncBetweenPosts ==
    /\ wpc = "backoff" =>
          hist.nBackoff = hist.nPost - 1 /\ hist.nResync = hist.nPost - 1
    /\ wpc = "resync" =>
          hist.nBackoff = hist.nPost /\ hist.nResync = hist.nPost - 1
    /\ wpc = "post" =>
          LET sig == payload.Signatures[1]
              signed == sig.Signature[1]
          IN  /\ hist.nConflict = hist.nPost - 1
              /\ hist.nBackoff = hist.nPost - 1
              /\ hist.nResync = hist.nPost - 1
              /\ Len(payload.Signatures) = 1
              /\ sig.Sequence = signed.Sequence
              /\ sig.AccountNumber = signed.AccountNumber
              /\ hist.nPost >= 2 =>
                    /\ sig.Sequence = Itoa(hist.resynced.Sequence)
                    /\ sig.AccountNumber = Itoa(hist.resynced.AccountNumber)

\* A retry is posted with a sequence that the resync before it changed.
C15_Witness ==
    /\ wpc = "post"
    /\ hist.nPost >= 2
    /\ hist.resynced.Sequence # hist.seq0
    /\ payload.Signatures[1].Sequence = Itoa(hist.resynced.Sequence)

\* The errors that are only logged.
LoggedErrors == {ErrAtoiGas}

\* C16: a broadcast POST is made only while no call made for the
\* Transaction has returned an error (so not after a failed validate, a
\* transport or decode error, a fatal response or a failed resync), and
\* every POST but the first follows a conflict; once a call has returned
\* an error the submission ends with an error one of its calls returned.
C16_RetryOnlyAfterConflict ==
    /\ hist.nPost <= hist.nConflict + 1
    /\ wpc = "post" =>
          /\ hist.raised \ LoggedErrors = {}
          /\ hist.nConflict = hist.nPost - 1
    /\ hist.raised \ LoggedErrors # {} =>
          /\ AtOutcome
          /\ out.result.nil \/ hist.lastRes.Code = 0
          /\ out.err \in hist.raised \ LoggedErrors

\* The POST of a retry met a transport error, which ends the submission.
C16_Witness ==
    /\ wpc = "deliver"
    /\ hist.nPost >= 2
    /\ hist.nResync = hist.nPost - 1
    /\ hist.lastRes = NoBroadcastResponse
    /\ out.err = ErrNet

\* C17: a step changes ctx.account only as the answer of code zero to a
\* broadcast POST, by adding one to the sequence, or as a successful resync
\* after a conflict, by storing the ledger's account; every other step
\* (validate and its answer, fee resolution and signing, the missing
\* gas_info, a transport or decode error, a fatal response, the exhausted
\* retries, the deliveries) leaves it as it is.
C17_SequenceFrame ==
    [][account' # account =>
          \/ /\ wpc = "post" /\ wpc' = "deliver"
             /\ hist'.lastRes.Code = 0
             /\ account' = [account EXCEPT !.Sequence = @ + 1]
          \/ /\ wpc = "resync" /\ wpc' = "broadcast"
             /\ hist.lastRes.Code # 0
             /\ account' = [AccountNumber |-> ledger.AccountNumber,
                            Sequence |-> ledger.Sequence]]_vars

\* In one submission the sequence was replaced by a resync and then
\* incremented by a success.
C17_Witness ==
    /\ wpc = "deliver"
    /\ hist.nResync >= 1
    /\ hist.resynced.Sequence # hist.seq0
    /\ hist.lastRes.Code = 0
    /\ account.Sequence = hist.resynced.Sequence + 1

\* C18: if the send of Transaction A completed before the send of B, then
\* by the time the worker has issued a network call for B it has sent A's
\* completion on A's done channel.
C18_FifoOrder ==
    \A i, j \in 1..Len(order) :
        LET A == order[i].txn
            B == order[j].txn
            called == \/ phase[B] = "done"
                      \/ phase[B] = "processing" /\ wpc # "process"
        IN  (i < j /\ called) => delivered[A] = 1

\* B was sent while A was still waiting in the channel; the worker has
\* delivered A and made the validate POST for B.
C18_Witness ==
    /\ Len(order) = 2
    /\ order[2].ahead = 1
    /\ cur = order[2].txn
    /\ wpc = "validate"
    /\ delivered[order[1].txn] = 1

\* C19: on a client that started in sync, with no other client using the
\* account, ctx.account equals the ledger's account whenever the worker is
\* idle, whatever the submissions before met: successes, code zero with
\* data that does not decode, conflicts, fatal responses, failed resyncs.
C19_InSyncWhenIdle ==
    (wpc = "idle" /\ ledger.external = 0) =>
        /\ account.Sequence = ledger.Sequence
        /\ account.AccountNumber = ledger.AccountNumber

\* The worker is idle after a submission that got code zero with data that
\* did not decode, the only submission so far: the caller has its error.
C19_Witness ==
    /\ wpc = "idle"
    /\ ledger.external = 0
    /\ account.Sequence = ledger.Sequence
    /\ \E c \in Callers :
          /\ callerPc[c] = "returned"
          /\ ret[c].err = ErrHexByte
          /\ order = <<[txn |-> c, ahead |-> 0]>>

\* C20: for every template, also one whose gas or amount is no number, and
\* every GasInfo, the fee resolution of a retry, run on the fee the attempt
\* before it left in the payload, yields the gas and the amount of the
\* first attempt.
C20_FeeIdempotent ==
    feeState.runs >= 1 =>
        /\ feeState.fee.Gas = feeState.first.Gas
        /\ feeState.fee.Amount = feeState.first.Amount
        /\ ResolveFee(feeState.fee, feeState.gasInfo) = feeState.first

\* A retry has resolved the fee again after the first attempt clamped the
\* gas and priced it.
C20_Witness ==
    /\ feeState.runs = 2
    /\ feeState.case.G = 50
    /\ feeState.gasInfo = GasInfo(30, 0, 5)
    /\ feeState.fee.Gas = <<"3", "0">>
    /\ feeState.fee.Amount[1].Amount = <<"1", "5", "0">>

====
